---- MODULE Spec2Model ----
(***************************************************************************)
(* cargo-spellcheck, src/action/bandaid.rs: the conversion of a picked    *)
(* replacement and the span it replaces into a FirstAidKit, a list of     *)
(* single-line BandAids.                                                   *)
(*                                                                         *)
(* A String is a sequence of UTF-8 bytes.  Four byte classes are enough:   *)
(*   "a"    an ASCII byte other than LF (one scalar value, one byte)       *)
(*   "lead" the first byte of a two-byte scalar value                      *)
(*   "cont" its continuation byte                                          *)
(*   "lf"   the line feed byte                                             *)
(* Carriage returns are not part of the alphabet.                          *)
(***************************************************************************)
EXTENDS Integers, Sequences, FiniteSets, TLC

VARIABLES pc, entry, replacement, span, suggestion, pick_idx, result, doc, patched

vars == <<pc, entry, replacement, span, suggestion, pick_idx, result, doc, patched>>

(* ------------------------------ bounds --------------------------------- *)

\* longest replacement string, in bytes
MaxBytes == 7
\* highest line number of a span
MaxLine == 3
\* highest column of a span
MaxCol == 2
\* most candidate replacements a suggestion carries
MaxReplacements == 2

(* ------------------------------ strings -------------------------------- *)

Byte == {"a", "lead", "cont", "lf"}

\* a Rust String holds valid UTF-8 only
ValidUtf8(s) ==
    \A i \in 1..Len(s) :
        /\ s[i] = "lead" => (i < Len(s) /\ s[i + 1] = "cont")
        /\ s[i] = "cont" => (i > 1 /\ s[i - 1] = "lead")

Strings == {s \in UNION {[1..k -> Byte] : k \in 0..MaxBytes} : ValidUtf8(s)}

\* a plausible slip: the byte length, str::len()
ByteCount(s) == Len(s)

\* str::chars().count(): the bytes that are not continuation bytes
CharCount(s) == Cardinality({i \in 1..Len(s) : s[i] # "cont"})

\* index of the first line feed of s, 0 when there is none
FirstLf(s) ==
    IF \E i \in 1..Len(s) : s[i] = "lf"
    THEN CHOOSE i \in 1..Len(s) : s[i] = "lf" /\ \A j \in 1..(i - 1) : s[j] # "lf"
    ELSE 0

RECURSIVE Lines(_)
\* str::lines(): the pieces between line feeds; the final line feed is optional,
\* so no empty piece follows it, and the empty string has no line
Lines(s) ==
    IF s = <<>> THEN <<>>
    ELSE LET i == FirstLf(s) IN
         IF i = 0 THEN <<s>>
         ELSE <<SubSeq(s, 1, i - 1)>> \o Lines(SubSeq(s, i + 1, Len(s)))

(* ------------------------------- spans --------------------------------- *)

LineColumn == [line : 1..MaxLine, column : 0..MaxCol]

\* Span is a plain struct of two LineColumn: any pair can be written down
Spans == [start : LineColumn, end : LineColumn]

\* Span::is_multiline
IsMultiline(s) == s.start.line # s.end.line

\* the range span.start.line..=span.end.line, empty when start.line > end.line
SpanLines(s) ==
    IF s.start.line <= s.end.line
    THEN [i \in 1..(s.end.line - s.start.line + 1) |-> s.start.line + i - 1]
    ELSE <<>>

(* --------------------------- BandAid, results --------------------------- *)

\* From<(String, Span)> for BandAid
BandAid(repl, s) == [span |-> s, replacement |-> repl]

Ok(bandaids) == [ok |-> TRUE, bandaids |-> bandaids, error |-> ""]

Err(msg) == [ok |-> FALSE, bandaids |-> <<>>, error |-> msg]

NoResult == Err("")

(* ---------------- TryFrom<(&String, &Span)> for FirstAidKit -------------- *)

None == [some |-> FALSE, value |-> <<>>]

Some(v) == [some |-> TRUE, value |-> v]

\* a plausible slip: unwrap_or_default() instead of ok_or(..)?
FirstLineOrDefault(replacement_lines) ==
    IF replacement_lines = <<>> THEN Some(<<>>) ELSE Some(replacement_lines[1])

\* replacement_lines.next()
FirstLine(replacement_lines) ==
    IF replacement_lines = <<>> THEN None ELSE Some(replacement_lines[1])

\* span_lines.next() for the first line
FirstSpanLine(span_lines) ==
    IF span_lines = <<>> THEN None ELSE Some(span_lines[1])

FirstSpan(s, line, first_line) ==
    [start |-> s.start,
     end   |-> [line |-> line, column |-> s.start.column + CharCount(first_line)]]

\* a plausible slip: no fallback once the span's lines are used up
SubsequentLineNoFallback(s, span_lines, i) == s.start.line + i

\* a plausible slip: falling back to the span's first line
SubsequentLineFallbackStart(s, span_lines, i) ==
    IF i + 1 <= Len(span_lines) THEN span_lines[i + 1] ELSE s.start.line

\* span_lines.next().unwrap_or(span.end.line) for replacement line i (0-based, i >= 1)
SubsequentLine(s, span_lines, i) ==
    IF i + 1 <= Len(span_lines) THEN span_lines[i + 1] ELSE s.end.line

\* a plausible slip: every line ends at its replacement's length
SubsequentSpanNoLast(s, line, replacement_line, has_next) ==
    [start |-> [line |-> line, column |-> 0],
     end   |-> [line |-> line, column |-> CharCount(replacement_line)]]

\* the span of a subsequent line; has_next is replacement_lines.peek().is_some()
SubsequentSpan(s, line, replacement_line, has_next) ==
    IF has_next
    THEN [start |-> [line |-> line, column |-> 0],
          end   |-> [line |-> line, column |-> CharCount(replacement_line)]]
    ELSE [start |-> [line |-> line, column |-> 0],
          end   |-> [line |-> line, column |-> s.end.column]]

\* the while-let loop: one bandaid per replacement line after the first
SubsequentBandAids(s, replacement_lines, span_lines) ==
    [i \in 1..(Len(replacement_lines) - 1) |->
        LET line == SubsequentLine(s, span_lines, i) IN
        BandAid(replacement_lines[i + 1],
                SubsequentSpan(s, line, replacement_lines[i + 1],
                               i + 1 < Len(replacement_lines)))]

\* the is_multiline() branch
MultiLineKit(repl, s) ==
    LET replacement_lines == Lines(repl)
        span_lines == SpanLines(s)
        first_line == FirstLine(replacement_lines)
        first_span_line == FirstSpanLine(span_lines)
    IN  IF ~first_line.some THEN Err("Replacement must contain at least one line")
        ELSE IF ~first_span_line.some THEN Err("Span must cover at least one line")
        ELSE Ok(<<BandAid(first_line.value,
                          FirstSpan(s, first_span_line.value, first_line.value))>>
                \o SubsequentBandAids(s, replacement_lines, span_lines))

\* a plausible slip: one bandaid per line of the replacement
SingleLineKitPerLine(repl, s) ==
    Ok([i \in 1..Len(Lines(repl)) |-> BandAid(Lines(repl)[i], s)])

\* the else branch: the replacement as it is, on the span as it is
SingleLineKit(repl, s) == Ok(<<BandAid(repl, s)>>)

TryFromStringSpan(repl, s) ==
    IF IsMultiline(s) THEN MultiLineKit(repl, s) ELSE SingleLineKit(repl, s)

(* -------------- TryFrom<(&Suggestion, usize)> for FirstAidKit ------------ *)

\* a plausible slip: .first() instead of .get(pick_idx)
PickFirstReplacement(sugg, idx) ==
    IF sugg.replacements = <<>> THEN None ELSE Some(sugg.replacements[1])

\* suggestion.replacements.get(pick_idx), pick_idx 0-based
PickReplacement(sugg, idx) ==
    IF idx < Len(sugg.replacements) THEN Some(sugg.replacements[idx + 1]) ELSE None

TryFromSuggestion(sugg, idx) ==
    LET picked == PickReplacement(sugg, idx) IN
    IF ~picked.some THEN Err("Does not contain any replacements")
    ELSE TryFromStringSpan(picked.value, sugg.span)

(* ----------------------- applying a kit to a document -------------------- *)

\* One scalar value of a text.  A document's scalar remembers where it stood,
\* so that a moved or lost character shows.
Scalar(ch, line, col) == [ch |-> ch, line |-> line, col |-> col]

LfScalar == Scalar("lf", 0, 0)

RECURSIVE Scalars(_)
\* the scalar values a String decodes to
Scalars(s) ==
    IF s = <<>> THEN <<>>
    ELSE IF s[1] = "lead" THEN <<Scalar("U", 0, 0)>> \o Scalars(SubSeq(s, 3, Len(s)))
    ELSE <<Scalar(s[1], 0, 0)>> \o Scalars(SubSeq(s, 2, Len(s)))

\* a document of the given line widths
Document(widths) ==
    [l \in 1..Len(widths) |-> [c \in 1..widths[l] |-> Scalar("o", l, c - 1)]]

Documents == {Document(w) : w \in [1..MaxLine -> 1..(MaxCol + 1)]}

\* the span addresses characters of the document
Inside(d, s) ==
    /\ s.start.line \in 1..Len(d) /\ s.start.column < Len(d[s.start.line])
    /\ s.end.line \in 1..Len(d) /\ s.end.column < Len(d[s.end.line])

\* lexicographic (line, column) order
LcLeq(a, b) == a.line < b.line \/ (a.line = b.line /\ a.column <= b.column)

\* the bandaid's replacement substituted for the inclusive column range of its
\* span on its line
ApplyBandAid(d, b) ==
    LET l == b.span.start.line
        old == d[l]
    IN  [d EXCEPT ![l] = SubSeq(old, 1, b.span.start.column)
                         \o Scalars(b.replacement)
                         \o SubSeq(old, b.span.end.column + 2, Len(old))]

RECURSIVE ApplyAll(_, _)
\* the bandaids applied in order
ApplyAll(d, bandaids) ==
    IF bandaids = <<>> THEN d
    ELSE ApplyAll(ApplyBandAid(d, Head(bandaids)), Tail(bandaids))

RECURSIVE Join(_)
\* lines joined by line feeds
Join(ls) ==
    IF ls = <<>> THEN <<>>
    ELSE IF Len(ls) = 1 THEN ls[1]
    ELSE ls[1] \o <<LfScalar>> \o Join(Tail(ls))

(* ----------------------------- state machine ---------------------------- *)

NoSpan == [start |-> [line |-> 1, column |-> 0], end |-> [line |-> 1, column |-> 0]]

NoSuggestion == [span |-> NoSpan, replacements |-> <<>>]

\* candidate replacements a suggestion may carry: empty, one line, two lines
\* with a multi-byte character, three lines with an empty one
CandidatePool ==
    { <<>>,
      <<"a">>,
      <<"lead", "cont", "lf", "a">>,
      <<"a", "lf", "lf", "a", "a">> }

Suggestions ==
    [span : Spans,
     replacements : UNION {[1..k -> CandidatePool] : k \in 0..MaxReplacements}]

Init ==
    /\ pc = "idle"
    /\ entry = "none"
    /\ replacement = <<>>
    /\ span = NoSpan
    /\ suggestion = NoSuggestion
    /\ pick_idx = 0
    /\ result = NoResult
    /\ doc = <<>>
    /\ patched = <<>>

\* FirstAidKit::try_from((&replacement, &span))
CallStringSpan ==
    /\ pc = "idle"
    /\ doc = <<>>
    /\ \E r \in Strings, s \in Spans :
        /\ replacement' = r
        /\ span' = s
        /\ result' = TryFromStringSpan(r, s)
    /\ entry' = "string_span"
    /\ pc' = "done"
    /\ UNCHANGED <<suggestion, pick_idx, doc, patched>>

\* FirstAidKit::try_from((&suggestion, pick_idx))
CallSuggestion ==
    /\ pc = "idle"
    /\ doc = <<>>
    /\ \E sugg \in Suggestions, idx \in 0..MaxReplacements :
        /\ suggestion' = sugg
        /\ pick_idx' = idx
        /\ result' = TryFromSuggestion(sugg, idx)
    /\ entry' = "suggestion"
    /\ pc' = "done"
    /\ UNCHANGED <<replacement, span, doc, patched>>

Next == CallStringSpan \/ CallSuggestion

Spec == Init /\ [][Next]_vars

\* a document is at hand
InitDocument ==
    /\ pc = "idle"
    /\ entry = "none"
    /\ replacement = <<>>
    /\ span = NoSpan
    /\ suggestion = NoSuggestion
    /\ pick_idx = 0
    /\ result = NoResult
    /\ doc \in Documents
    /\ patched = <<>>

\* the conversion of a non-empty replacement for a span inside the document
ConvertInDocument ==
    /\ pc = "idle"
    /\ doc # <<>>
    /\ \E r \in Strings \ {<<>>}, s \in Spans :
        /\ Inside(doc, s)
        /\ LcLeq(s.start, s.end)
        /\ replacement' = r
        /\ span' = s
        /\ result' = TryFromStringSpan(r, s)
    /\ entry' = "string_span"
    /\ pc' = "done"
    /\ UNCHANGED <<suggestion, pick_idx, doc, patched>>

\* the returned bandaids applied to the document
ApplyKit ==
    /\ pc = "done"
    /\ doc # <<>>
    /\ result.ok
    /\ patched' = ApplyAll(doc, result.bandaids)
    /\ pc' = "applied"
    /\ UNCHANGED <<entry, replacement, span, suggestion, pick_idx, result, doc>>

NextDocument == ConvertInDocument \/ ApplyKit

SpecDocument == InitDocument /\ [][NextDocument]_vars

(* ------------------------------- claims --------------------------------- *)

\* the raw entry point has returned
Returned == pc = "done" /\ entry = "string_span"

\* the replacement's lines RL[0..n), here 1-based
RL == Lines(replacement)

N == Len(RL)

\* the number of lines the span covers
M == IF span.start.line <= span.end.line THEN span.end.line - span.start.line + 1 ELSE 0

Max(a, b) == IF a >= b THEN a ELSE b

\* the number of scalar values of a string, by decoding it
ScalarCount(s) == Len(Scalars(s))

HasLead(s) == \E i \in 1..Len(s) : s[i] = "lead"

\* the text of the document before the span and after it
Prefix(d, s) ==
    Join(SubSeq(d, 1, s.start.line - 1) \o <<SubSeq(d[s.start.line], 1, s.start.column)>>)

Suffix(d, s) ==
    Join(<<SubSeq(d[s.end.line], s.end.column + 2, Len(d[s.end.line]))>>
         \o SubSeq(d, s.end.line + 1, Len(d)))

\* C1: applying the returned bandaids in order to the document replaces exactly
\* the region the span covers by the replacement's content (the replacement
\* itself, or its lines joined) and leaves every character outside the span
\* as it was.
C1_AppliedReplacesExactlySpan ==
    pc = "applied" =>
        \/ Join(patched) = Prefix(doc, span) \o Scalars(replacement) \o Suffix(doc, span)
        \/ Join(patched) = Prefix(doc, span)
                           \o Join([i \in 1..N |-> Scalars(RL[i])])
                           \o Suffix(doc, span)

\* C2: for a span on one line (start.line = end.line) and any replacement, the
\* kit holds exactly one bandaid, with the span as given and the replacement
\* unchanged.
C2_SingleLineOneBandAid ==
    (Returned /\ span.start.line = span.end.line) =>
        /\ result.ok
        /\ result.bandaids = <<[span |-> span, replacement |-> replacement]>>

C2_Witness ==
    /\ Returned
    /\ span.start.line = span.end.line
    /\ span.start.column < span.end.column
    /\ N >= 2
    /\ result.ok
    /\ Len(result.bandaids) = 1

\* every bandaid of the result lies on a line of the span
LinesWithinSpan ==
    \A k \in 1..Len(result.bandaids) :
        /\ result.bandaids[k].span.start.line \in span.start.line..span.end.line
        /\ result.bandaids[k].span.end.line \in span.start.line..span.end.line

\* C3 as stated: for a multi-line span of m lines and a replacement of n lines
\* the conversion yields exactly max(1, n) bandaids, each on a line of the span.
C3_Original ==
    (Returned /\ span.start.line < span.end.line) =>
        /\ result.ok
        /\ Len(result.bandaids) = Max(1, N)
        /\ LinesWithinSpan

\* C3 amended: for a multi-line span of m lines and a replacement of n lines
\* the conversion yields exactly n bandaids when n >= 1, each on a line of the
\* span (also when n > m), and fails when n = 0.
C3_MultiLineCount ==
    (Returned /\ span.start.line < span.end.line) =>
        IF N = 0
        THEN ~result.ok /\ result.bandaids = <<>>
        ELSE /\ result.ok
             /\ Len(result.bandaids) = N
             /\ LinesWithinSpan

C3_Witness ==
    /\ Returned
    /\ span.start.line < span.end.line
    /\ M = 2
    /\ N = 3
    /\ result.ok
    /\ Len(result.bandaids) = 3

LastBandAid == result.bandaids[Len(result.bandaids)]

\* C4 as stated: for a successful conversion of a span of m lines with a
\* replacement of n <= m lines, the last bandaid ends at the span's end column.
C4_Original ==
    (Returned /\ result.ok /\ M >= 1 /\ N <= M) =>
        LastBandAid.span.end.column = span.end.column

\* C4 amended: for a successful conversion of a span of m lines with a
\* replacement of n <= m lines, the last bandaid ends at the span's end column
\* when n >= 2 or the span is on one line; when n = 1 and the span is
\* multi-line, the only bandaid ends at start.column + char_count(RL[0]).
C4_LastEndColumn ==
    (Returned /\ result.ok /\ M >= 1 /\ N <= M) =>
        IF N = 1 /\ M >= 2
        THEN LastBandAid.span.end.column = span.start.column + ScalarCount(RL[1])
        ELSE LastBandAid.span.end.column = span.end.column

C4_Witness ==
    /\ Returned
    /\ result.ok
    /\ M = 3
    /\ N = 2
    /\ ScalarCount(RL[2]) # span.end.column
    /\ LastBandAid.span.end.column = span.end.column

C6_InvertedSpanFails ==
    (Returned /\ ~LcLeq(span.start, span.end)) =>
        (~result.ok /\ result.bandaids = <<>>)

\* C7: with an index outside the suggestion's replacements the conversion
\* fails with no kit; otherwise its result is that of the conversion of the
\* replacement at that index and the suggestion's span.
C7_SuggestionPicksIndexed ==
    (pc = "done" /\ entry = "suggestion") =>
        IF pick_idx \in 0..(Len(suggestion.replacements) - 1)
        THEN result = TryFromStringSpan(suggestion.replacements[pick_idx + 1],
                                        suggestion.span)
        ELSE ~result.ok /\ result.bandaids = <<>>

C7_Witness ==
    /\ pc = "done"
    /\ entry = "suggestion"
    /\ Len(suggestion.replacements) = 2
    /\ pick_idx = 1
    /\ result.ok
    /\ result # TryFromStringSpan(suggestion.replacements[1], suggestion.span)

C9_BandAidsWellFormed ==
    (pc = "done" /\ result.ok) =>
        \A k \in 1..Len(result.bandaids) :
            /\ result.bandaids[k].span.start.line = result.bandaids[k].span.end.line
            /\ LcLeq(result.bandaids[k].span.start, result.bandaids[k].span.end)

\* C10: for a multi-line span of lines OL[0..m) and a replacement of lines
\* RL[0..n), the bandaid of index i >= 1 carries RL[i], lies on OL[i] when
\* i < m and on the span's end line when i >= m, starts at column 0 and ends
\* at column char_count(RL[i]), or at the span's end column when i is the last
\* replacement line; the bandaids are in non-decreasing line order.
C10_SubsequentBandAids ==
    (Returned /\ span.start.line < span.end.line /\ result.ok) =>
        /\ Len(result.bandaids) = N
        /\ \A i \in 1..(N - 1) :
            LET b == result.bandaids[i + 1]
                target == IF i < M THEN span.start.line + i ELSE span.end.line
            IN  /\ b.replacement = RL[i + 1]
                /\ b.span.start = [line |-> target, column |-> 0]
                /\ b.span.end.line = target
                /\ b.span.end.column =
                       IF i = N - 1 THEN span.end.column ELSE ScalarCount(RL[i + 1])
        /\ \A k \in 1..(N - 1) :
               result.bandaids[k].span.start.line <= result.bandaids[k + 1].span.start.line

C10_Witness ==
    /\ Returned
    /\ span.start.line < span.end.line
    /\ result.ok
    /\ M = 2
    /\ N >= 4
    /\ result.bandaids[3].span.start.line = span.end.line
    /\ result.bandaids[4].span.start.line = span.end.line

====
